---- MODULE Spec2Model ----
(***************************************************************************)
(* Model of tools/vfvs_prepare_workunits.py (VirtualFlow VFVS): the        *)
(* batching of the collections listed in ../workflow/todo.all into subjobs *)
(* and workunits (process), the packaging and storing of one workunit      *)
(* (publish_workunit) and the path computations they use.                  *)
(*                                                                         *)
(* Text is modelled two ways: a manifest line is a sequence of one         *)
(* character strings, so that str.split can be computed on it; every       *)
(* other text value is a TLA+ string, concatenated with \o.                *)
(***************************************************************************)
EXTENDS Integers, Sequences, FiniteSets, TLC

\* ---------------------------------------------------------------- bounds
\* Longest manifest (lines of todo.all) that is explored.
MaxLines == 3
\* Largest ligand count written on a manifest line.
MaxCount == 2
\* Largest value of config['ligands_todo_per_queue'] that is explored.
MaxThreshold == 3
\* Largest value of the array job size that is explored.
MaxArray == 2

\* ---------------------------------------------------------- text helpers
Digit == <<"0", "1", "2", "3", "4", "5", "6", "7", "8", "9">>

\* str(n) for a natural number n
RECURSIVE IntToStr(_)
IntToStr(n) ==
    IF n < 10 THEN Digit[n + 1]
    ELSE IntToStr(n \div 10) \o Digit[(n % 10) + 1]

\* the characters of str(n)
RECURSIVE IntToChars(_)
IntToChars(n) ==
    IF n < 10 THEN <<Digit[n + 1]>>
    ELSE Append(IntToChars(n \div 10), Digit[(n % 10) + 1])

\* the text spelled by a sequence of characters
RECURSIVE Str(_)
Str(chars) ==
    IF chars = <<>> THEN "" ELSE Head(chars) \o Str(Tail(chars))

IsDigits(chars) ==
    /\ chars # <<>>
    /\ \A i \in 1..Len(chars) : \E d \in 1..10 : Digit[d] = chars[i]

DigitVal(c) == (CHOOSE d \in 1..10 : Digit[d] = c) - 1

\* int(text) for a text of decimal digits
RECURSIVE StrToInt(_)
StrToInt(chars) ==
    IF Len(chars) = 1 THEN DigitVal(chars[1])
    ELSE 10 * StrToInt(SubSeq(chars, 1, Len(chars) - 1)) + DigitVal(chars[Len(chars)])

\* text.rjust(width, "0"): the zero padding of the format spec ":07"
RECURSIVE ZeroPad(_, _)
ZeroPad(text, width) ==
    IF Len(text) >= width THEN text ELSE ZeroPad("0" \o text, width)

\* line.split(): the maximal runs of characters that are not white space
RECURSIVE split(_)
split(chars) ==
    IF chars = <<>> THEN <<>>
    ELSE IF Head(chars) = " " THEN split(Tail(chars))
    ELSE LET n == IF \E i \in 1..Len(chars) : chars[i] = " "
                  THEN (CHOOSE i \in 1..Len(chars) :
                           /\ chars[i] = " "
                           /\ \A j \in 1..(i - 1) : chars[j] # " ") - 1
                  ELSE Len(chars)
         IN  <<SubSeq(chars, 1, n)>> \o split(SubSeq(chars, n + 1, Len(chars)))

\* text.split("_", 1): cut at the first separator, if there is one
split_sep_1(chars) ==
    IF \E i \in 1..Len(chars) : chars[i] = "_"
    THEN LET i == CHOOSE k \in 1..Len(chars) :
                     /\ chars[k] = "_"
                     /\ \A j \in 1..(k - 1) : chars[j] # "_"
         IN  <<SubSeq(chars, 1, i - 1), SubSeq(chars, i + 1, Len(chars))>>
    ELSE <<chars>>

\* --------------------------------------------------------- dict helpers
EmptyDict == <<>>

DictSet(d, k, v) ==
    [x \in (DOMAIN d) \cup {k} |-> IF x = k THEN v ELSE d[x]]

\* json.dump turns the integer keys of a dict into their decimal text
JsonKeys(d) ==
    [k \in {IntToStr(i) : i \in DOMAIN d} |->
        d[CHOOSE i \in DOMAIN d : IntToStr(i) = k]]

\* ------------------------------------------------------------- manifest
\* The i-th collection of the manifest: collections are listed once each,
\* so the name on a line is fixed by the position of the line.
CollectionChars(i) == <<"A", "A", "_">> \o IntToChars(i)

\* The same name written without the separator.
NoSeparatorChars(i) == <<"A", "A">> \o IntToChars(i)

\* The well formed lines that position i of todo.all may hold: one for
\* each count.
GoodLinesAt(i) ==
    {CollectionChars(i) \o <<" ">> \o IntToChars(c) : c \in 1..MaxCount}

\* The malformed lines that position i may hold: a line of one token, a
\* line of three tokens and a line whose name has no "_".
BadLinesAt(i) ==
    {CollectionChars(i),
     CollectionChars(i) \o <<" ">> \o IntToChars(1) \o <<" ">> \o IntToChars(1),
     NoSeparatorChars(i) \o <<" ">> \o IntToChars(1)}

\* The manifests of exactly n well formed lines.
RECURSIVE GoodManifestsOfLen(_)
GoodManifestsOfLen(n) ==
    IF n = 0 THEN {<<>>}
    ELSE {Append(m, l) : m \in GoodManifestsOfLen(n - 1), l \in GoodLinesAt(n)}

\* The manifests of exactly n lines of which one is malformed.  The loop
\* never reads past its first malformed line, so the lines that follow one
\* are all alike.
RECURSIVE BadManifestsOfLen(_)
BadManifestsOfLen(n) ==
    IF n = 0 THEN {}
    ELSE {Append(m, l) : m \in GoodManifestsOfLen(n - 1), l \in BadLinesAt(n)}
           \cup {Append(m, CollectionChars(n) \o <<" ">> \o IntToChars(1)) :
                    m \in BadManifestsOfLen(n - 1)}

Manifests ==
    UNION {GoodManifestsOfLen(n) \cup BadManifestsOfLen(n) : n \in 0..MaxLines}

\* -------------------------------------------------------- configuration
StorageModes == {"s3", "sharedfs", "gcs"}
AddressingModes == {"hash", "metatranche"}

\* ctx['config'] as parse_config loads it, with the keys the tool reads
Configs ==
    {c \in [job_storage_mode : StorageModes,
            object_store_job_addressing_mode : AddressingModes,
            object_store_data_collection_addressing_mode : AddressingModes,
            ligands_todo_per_queue : 1..MaxThreshold,
            batchsystem : {"awsbatch", "slurm"},
            aws_batch_array_job_size : 1..MaxArray,
            slurm_array_job_size : 1..MaxArray,
            object_store_job_prefix : {"jobs"},
            object_store_job_prefix_full : {"jobs/j"},
            job_letter : {"j"},
            object_store_data_bucket : {"bucket"},
            object_store_data_collection_prefix : {"data"},
            object_store_data_collection_identifier : {"lib"},
            ligand_library_format : {"pdbqt"},
            sharedfs_workunit_path : {"/shared/workunits"},
            sharedfs_collection_path : {"/shared/collections"},
            docking_scenario_basefolder : {"input-files"},
            tempdir_default : {"/tmp"}] :
        \* a key that the run never reads has one value: the array size of
        \* the other batch system, the job addressing mode outside s3 mode
        \* and the collection addressing mode in an unknown storage mode;
        \* slurm is explored with the largest array size
        /\ IF c.batchsystem = "awsbatch" THEN c.slurm_array_job_size = 1
           ELSE c.aws_batch_array_job_size = 1 /\ c.slurm_array_job_size = MaxArray
        /\ c.job_storage_mode # "s3" => c.object_store_job_addressing_mode = "hash"
        /\ c.job_storage_mode \notin {"s3", "sharedfs"} =>
               c.object_store_data_collection_addressing_mode = "hash"}

\* ----------------------------------------------------------- addressing
get_formatted_collection_number(collection_number) ==
    ZeroPad(IntToStr(collection_number), 7)

\* The first four hexadecimal digits of a SHA-256 digest are not computed:
\* a shard is the text it is cut from, tagged with the slice taken.
sha256_hexdigest_slice(text, slice) == "sha256(" \o text \o ")" \o slice

get_collection_hash(collection_name, collection_number) ==
    LET formatted_collection_number == get_formatted_collection_number(collection_number)
        string_to_hash == collection_name \o "/" \o formatted_collection_number
    IN  [s02 |-> sha256_hexdigest_slice(string_to_hash, "[0:2]"),
         s24 |-> sha256_hexdigest_slice(string_to_hash, "[2:4]")]

\* "/".join(parts)
RECURSIVE join(_)
join(parts) ==
    IF Len(parts) = 1 THEN parts[1]
    ELSE parts[1] \o "/" \o join(Tail(parts))

\* the directories both collection path functions build under a root
collection_path(cfg, root, tranche, collection_name, number_chars) ==
    IF cfg.object_store_data_collection_addressing_mode = "hash"
    THEN LET hash_string == get_collection_hash(collection_name, StrToInt(number_chars))
             remote_dir ==
                 IF cfg.object_store_data_collection_identifier # ""
                 THEN <<root, hash_string.s02, hash_string.s24,
                        cfg.object_store_data_collection_identifier,
                        cfg.ligand_library_format, collection_name>>
                 ELSE <<root, hash_string.s02, hash_string.s24,
                        cfg.ligand_library_format, collection_name>>
         IN  join(remote_dir) \o "/"
               \o ZeroPad(IntToStr(StrToInt(number_chars)), 7) \o ".tar.gz"
    ELSE join(<<root, tranche, collection_name, Str(number_chars) \o ".tar.gz">>)

\* the collection path laid out by the addressing mode of the job archives
gen_s3_download_path_by_job_mode(cfg, tranche, collection_name, number_chars) ==
    collection_path([cfg EXCEPT !.object_store_data_collection_addressing_mode =
                                    cfg.object_store_job_addressing_mode],
                    cfg.object_store_data_collection_prefix,
                    tranche, collection_name, number_chars)

gen_s3_download_path(cfg, tranche, collection_name, number_chars) ==
    collection_path(cfg, cfg.object_store_data_collection_prefix,
                    tranche, collection_name, number_chars)

gen_sharedfs_path(cfg, tranche, collection_name, number_chars) ==
    collection_path(cfg, cfg.sharedfs_collection_path,
                    tranche, collection_name, number_chars)

\* the remote key of the archive of workunit index
workunit_object_name(cfg, index) ==
    IF cfg.object_store_job_addressing_mode = "hash"
    THEN LET hash_string == get_collection_hash(cfg.job_letter, index)
         IN  join(<<cfg.object_store_job_prefix, hash_string.s02, hash_string.s24,
                    cfg.job_letter, "input", "tasks", IntToStr(index) \o ".tar.gz">>)
    ELSE join(<<cfg.object_store_job_prefix_full, "input", "tasks",
                IntToStr(index) \o ".tar.gz">>)

\* Path(config['sharedfs_workunit_path']) / f"{index}.tar.gz"
sharedfs_workunit_path(cfg, index) ==
    cfg.sharedfs_workunit_path \o "/" \o IntToStr(index) \o ".tar.gz"

\* ------------------------------------------------------------- subjobs
generate_subjob_init == [collections |-> EmptyDict]

\* lines 245-258: the record add_collection_to_subjob stores for a collection
collection_entry(cfg, collection_key, collection_count, collection_tranche, collection_name, number_chars) ==
    IF cfg.job_storage_mode = "s3"
    THEN [collection_full_name |-> collection_key,
          collection_tranche |-> collection_tranche,
          collection_name |-> collection_name,
          collection_number |-> Str(number_chars),
          ligand_count |-> collection_count,
          s3_bucket |-> cfg.object_store_data_bucket,
          s3_download_path |->
              gen_s3_download_path(cfg, collection_tranche,
                                   collection_name, number_chars)]
    ELSE IF cfg.job_storage_mode = "sharedfs"
    THEN [collection_full_name |-> collection_key,
          collection_tranche |-> collection_tranche,
          collection_name |-> collection_name,
          collection_number |-> Str(number_chars),
          ligand_count |-> collection_count,
          sharedfs_path |->
              gen_sharedfs_path(cfg, collection_tranche,
                                collection_name, number_chars)]
    ELSE [collection_full_name |-> collection_key,
          collection_tranche |-> collection_tranche,
          collection_name |-> collection_name,
          collection_number |-> Str(number_chars),
          ligand_count |-> collection_count]

\* add_collection_to_subjob assigning a new collections dict instead of
\* storing into the one the subjob has
add_collection_to_subjob_overwrite(cfg, subjob, collection_key, collection_count, collection_tranche, collection_name, number_chars) ==
    [collections |->
        DictSet(EmptyDict, collection_key,
                collection_entry(cfg, collection_key, collection_count,
                                 collection_tranche, collection_name, number_chars))]

\* the subjob after add_collection_to_subjob has stored a collection in it
add_collection_to_subjob(cfg, subjob, collection_key, collection_count, collection_tranche, collection_name, number_chars) ==
    [collections |->
        DictSet(subjob.collections, collection_key,
                collection_entry(cfg, collection_key, collection_count,
                                 collection_tranche, collection_name, number_chars))]

\* ---------------------------------------------------------------- state
VARIABLES
    todo_all,                  \* the lines of ../workflow/todo.all
    config,                    \* ctx['config']
    pc,                        \* the position of the run
    index,                     \* manifest lines consumed by the loop
    status,                    \* the status dict of process
    current_workunit_index,
    current_workunit_subjobs,
    current_subjob_index,
    leftover_count,
    leftover_subjob,
    counter,
    call_site,                 \* which call of publish_workunit is running
    live_tmp,                  \* temporary directories that exist on disk
    temp_archive,              \* <index>.tar.gz inside temp_dir_tar
    bucket,                    \* object store: key -> uploaded archive
    sharedfs,                  \* shared file system: path -> copied archive
    io_failed,                 \* the storage primitive that failed, if any
    status_json,               \* ../workflow/status.json
    status_todolists_json,     \* ../workflow/status.todolists.json
    stdout,
    log,                       \* records of logging.error
    raised,                    \* the exception that ended the run, if any
    exit_status                \* the status the interpreter exits with

vars == <<todo_all, config, pc, index, status, current_workunit_index,
          current_workunit_subjobs, current_subjob_index, leftover_count,
          leftover_subjob, counter, call_site, live_tmp, temp_archive,
          bucket, sharedfs, io_failed, status_json, status_todolists_json,
          stdout, log, raised, exit_status>>

NoFile == <<>>

\* workunits = status['workunits']: the same dict under a second name
workunits == status.workunits

\* the array size the configured batch system selects
max_array_job_size ==
    IF config.batchsystem = "awsbatch" THEN config.aws_batch_array_job_size
    ELSE config.slurm_array_job_size

ligands_todo_per_queue == config.ligands_todo_per_queue

\* the threshold comparison turned around
meets_threshold_inverted(count) == count <= ligands_todo_per_queue

\* a count that fills a subjob only when it exceeds the threshold
meets_threshold_strict(count) == count > ligands_todo_per_queue

\* lines 308 and 336: a count that fills a subjob
meets_threshold(count) == count >= ligands_todo_per_queue

\* a workunit published only once it has outgrown the array size
workunit_full_late(subjobs) == Cardinality(DOMAIN subjobs) > max_array_job_size

\* line 344: the workunit in progress has reached the array size
workunit_full(subjobs) == Cardinality(DOMAIN subjobs) = max_array_job_size

\* the leftover pile flushed only when it is full
has_leftovers_when_full(count) == count >= ligands_todo_per_queue

\* line 359: the leftover pile holds something
has_leftovers(count) == count > 0

\* the last workunit published whatever it holds
has_items_unchecked(subjobs) == Cardinality(DOMAIN subjobs) >= 0

\* line 363: the workunit in progress has any items in it
has_items(subjobs) == Cardinality(DOMAIN subjobs) > 0

\* the subjob index left as it is after a seal
next_subjob_index_stuck(i) == i

\* lines 320 and 340: the index of the subjob after subjob i
next_subjob_index(i) == i + 1

\* the leftover pile dropped when a workunit is published
leftover_after_publish_reset(subjob) == [collections |-> EmptyDict]

\* lines 345-350 and 364: what the caller assigns after a publish are
\* status, the indices and current_workunit_subjobs; the leftover pile is
\* the object it was
leftover_after_publish(subjob) == subjob

\* the workunit index left as it is after a publish
next_workunit_index_stuck(i) == i

\* line 348: the index of the workunit after workunit i
next_workunit_index(i) == i + 1

\* line 367: the number of workunits when the last one stayed empty
completed_workunits(i) == i - 1

\* -------------------------------------------------------------- parsing
\* the first two tokens taken, further tokens ignored
ParseOk_lenient(line) ==
    LET tokens == split(line)
    IN  /\ Len(tokens) >= 2
        /\ Len(split_sep_1(tokens[1])) = 2
        /\ IsDigits(tokens[2])

\* a line parses when it unpacks into two tokens, its first token unpacks
\* into a name and a number, and its second token is an integer
ParseOk(line) ==
    LET tokens == split(line)
    IN  /\ Len(tokens) = 2
        /\ Len(split_sep_1(tokens[1])) = 2
        /\ IsDigits(tokens[2])

Parsed(line) ==
    LET tokens == split(line)
        full == tokens[1]
        parts == split_sep_1(full)
    IN  [collection_full_name |-> Str(full),
         collection_tranche |-> Str(SubSeq(full, 1, IF Len(full) < 2 THEN Len(full) ELSE 2)),
         collection_name |-> Str(parts[1]),
         number_chars |-> parts[2],
         collection_count |-> StrToInt(tokens[2])]

NextLine == todo_all[index + 1]

AddParsed(subjob, c) ==
    add_collection_to_subjob(config, subjob, c.collection_full_name,
                             c.collection_count, c.collection_tranche,
                             c.collection_name, c.number_chars)

\* ------------------------------------------------------------ documents
json_dump_subjobs(subjobs) == JsonKeys(subjobs)

\* config.json of the scratch tree
output_structure(cfg, workunit_subjobs) ==
    [config |-> cfg, subjobs |-> json_dump_subjobs(workunit_subjobs)]

\* <index>.tar.gz: the scratch tree under the entry name vf_input
make_archive(cfg, idx, workunit_subjobs) ==
    [name |-> IntToStr(idx) \o ".tar.gz",
     vf_input |-> [config_json |-> output_structure(cfg, workunit_subjobs),
                   input_files |-> cfg.docking_scenario_basefolder]]

json_dump_workunit(w) == [w EXCEPT !.subjobs = json_dump_subjobs(@)]

json_dump_status(st) ==
    [overall |-> st.overall,
     workunits |-> JsonKeys([i \in DOMAIN st.workunits |->
                                json_dump_workunit(st.workunits[i])]),
     collections |-> st.collections]

\* the recorded subjobs emptied, as by clearing the dict that the status
\* shares with the caller instead of binding a new one
publish_result_s3_cleared(cfg, idx, workunit_subjobs) ==
    [subjobs |-> EmptyDict,
     s3_download_path |-> workunit_object_name(cfg, idx)]

\* what publish_workunit returns in each storage mode
publish_result_s3(cfg, idx, workunit_subjobs) ==
    [subjobs |-> workunit_subjobs,
     s3_download_path |-> workunit_object_name(cfg, idx)]

publish_result_sharedfs(cfg, idx, workunit_subjobs) ==
    [subjobs |-> workunit_subjobs,
     download_path |-> sharedfs_workunit_path(cfg, idx)]

\* ----------------------------------------------------------------- Init
Init ==
    /\ todo_all \in Manifests
    /\ config \in Configs
    /\ pc = "loop"
    /\ index = 0
    /\ status = [overall |-> EmptyDict, workunits |-> EmptyDict, collections |-> EmptyDict]
    /\ current_workunit_index = 1
    /\ current_workunit_subjobs = EmptyDict
    /\ current_subjob_index = 0
    /\ leftover_count = 0
    /\ leftover_subjob = generate_subjob_init
    /\ counter = 0
    /\ call_site = "none"
    /\ live_tmp = {}
    /\ temp_archive = NoFile
    /\ bucket = EmptyDict
    /\ sharedfs = EmptyDict
    /\ io_failed = "none"
    /\ status_json = NoFile
    /\ status_todolists_json = NoFile
    /\ stdout = <<"Generating jobfiles....">>
    /\ log = <<>>
    /\ raised = "none"
    /\ exit_status = 0

\* -------------------------------------------------------------- actions
Manifest == <<todo_all, config>>
Batching == <<current_workunit_index, current_workunit_subjobs,
              current_subjob_index, leftover_count, leftover_subjob>>
Scratch == <<live_tmp, temp_archive>>
Storage == <<bucket, sharedfs>>
Artifacts == <<status_json, status_todolists_json>>

\* an exception, or exit(1), unwinds process and main
Abort(exception) ==
    /\ pc' = "aborted"
    /\ raised' = exception
    /\ exit_status' = 1

\* lines 344-352: after a line, publish a full workunit or go on
AfterLine(subjobs) ==
    IF workunit_full(subjobs)
    THEN /\ pc' = "publish"
         /\ call_site' = "loop"
         /\ UNCHANGED <<index, counter>>
    ELSE /\ pc' = "loop"
         /\ index' = index + 1
         /\ counter' = counter + 1
         /\ UNCHANGED call_site

\* lines 303-306 on a line that does not unpack: ValueError
read_malformed_line ==
    /\ pc = "loop"
    /\ index < Len(todo_all)
    /\ ~ParseOk(NextLine)
    /\ Abort("ValueError")
    /\ UNCHANGED <<Manifest, index, status, Batching, counter, call_site,
                   Scratch, Storage, io_failed, Artifacts, stdout, log>>

\* lines 308-320: the collection meets the threshold
seal_singleton ==
    /\ pc = "loop"
    /\ index < Len(todo_all)
    /\ ParseOk(NextLine)
    /\ config.job_storage_mode \in {"s3", "sharedfs"}
    /\ LET c == Parsed(NextLine) IN
         /\ meets_threshold(c.collection_count)
         /\ current_workunit_subjobs' =
                DictSet(current_workunit_subjobs, current_subjob_index,
                        AddParsed(generate_subjob_init, c))
         /\ current_subjob_index' = next_subjob_index(current_subjob_index)
    /\ AfterLine(current_workunit_subjobs')
    /\ UNCHANGED <<Manifest, status, current_workunit_index, leftover_count,
                   leftover_subjob, Scratch, Storage, io_failed, Artifacts,
                   stdout, log, raised, exit_status>>

\* lines 321-342: the collection joins the leftover pile, which is sealed
\* once it meets the threshold
add_leftover ==
    /\ pc = "loop"
    /\ index < Len(todo_all)
    /\ ParseOk(NextLine)
    /\ config.job_storage_mode \in {"s3", "sharedfs"}
    /\ LET c == Parsed(NextLine)
           count == leftover_count + c.collection_count
           subjob == AddParsed(leftover_subjob, c)
       IN
         /\ ~meets_threshold(c.collection_count)
         /\ IF meets_threshold(count)
            THEN /\ current_workunit_subjobs' =
                       DictSet(current_workunit_subjobs, current_subjob_index, subjob)
                 /\ current_subjob_index' = next_subjob_index(current_subjob_index)
                 /\ leftover_subjob' = generate_subjob_init
                 /\ leftover_count' = 0
            ELSE /\ leftover_subjob' = subjob
                 /\ leftover_count' = count
                 /\ UNCHANGED <<current_workunit_subjobs, current_subjob_index>>
    /\ AfterLine(current_workunit_subjobs')
    /\ UNCHANGED <<Manifest, status, current_workunit_index, Scratch, Storage,
                   io_failed, Artifacts, stdout, log, raised, exit_status>>

\* lines 260-262: add_collection_to_subjob in a storage mode it does not
\* know stores the collection, reports the mode and exits
exit_unknown_storage_mode ==
    /\ pc = "loop"
    /\ index < Len(todo_all)
    /\ ParseOk(NextLine)
    /\ config.job_storage_mode \notin {"s3", "sharedfs"}
    /\ LET c == Parsed(NextLine) IN
         IF meets_threshold(c.collection_count)
         THEN /\ current_workunit_subjobs' =
                    DictSet(current_workunit_subjobs, current_subjob_index,
                            AddParsed(generate_subjob_init, c))
              /\ UNCHANGED <<leftover_count, leftover_subjob>>
         ELSE /\ leftover_count' = leftover_count + c.collection_count
              /\ leftover_subjob' = AddParsed(leftover_subjob, c)
              /\ UNCHANGED current_workunit_subjobs
    /\ stdout' = Append(stdout, "job_storage_mode must be either s3 or sharedfs (currently: "
                                  \o config.job_storage_mode \o ")")
    /\ Abort("SystemExit")
    /\ UNCHANGED <<Manifest, index, status, current_workunit_index,
                   current_subjob_index, counter, call_site, Scratch, Storage,
                   io_failed, Artifacts, log>>

\* lines 345-350 and 364: the caller records what publish_workunit returned
Returned(result) ==
    /\ status' = [status EXCEPT !.workunits =
                      DictSet(@, current_workunit_index, result)]
    /\ call_site' = "none"
    /\ leftover_subjob' = leftover_after_publish(leftover_subjob)
    /\ IF call_site = "loop"
       THEN /\ current_workunit_index' = next_workunit_index(current_workunit_index)
            /\ current_subjob_index' = 0
            /\ current_workunit_subjobs' = EmptyDict
            /\ counter' = counter + 1
            /\ index' = index + 1
            /\ pc' = "loop"
       ELSE /\ pc' = "write"
            /\ UNCHANGED <<current_workunit_index, current_subjob_index,
                           current_workunit_subjobs, counter, index>>

\* temp_dir.cleanup() and temp_dir_tar.cleanup()
cleanup(dirs) == dirs \ {"temp_dir", "temp_dir_tar"}

\* lines 65-94: both temporary directories are created, config.json is
\* written, the input files are copied and the scratch tree is packed
publish_stage ==
    /\ pc = "publish"
    /\ live_tmp' = live_tmp \cup {"temp_dir", "temp_dir_tar"}
    /\ temp_archive' = make_archive(config, current_workunit_index,
                                    current_workunit_subjobs)
    /\ pc' = "store"
    /\ UNCHANGED <<Manifest, index, status, Batching, counter, call_site,
                   Storage, io_failed, Artifacts, stdout, log, raised,
                   exit_status>>

\* lines 82-94: writing, copying or packing raises (missing input files,
\* disk full); the exception leaves publish_workunit and ends the run
publish_stage_fails ==
    /\ pc = "publish"
    /\ live_tmp' = live_tmp \cup {"temp_dir", "temp_dir_tar"}
    /\ io_failed' = "stage"
    /\ Abort("OSError")
    /\ UNCHANGED <<Manifest, index, status, Batching, counter, call_site,
                   temp_archive, Storage, Artifacts, stdout, log>>

\* lines 96-133: the archive is uploaded under its key
publish_upload ==
    /\ pc = "store"
    /\ config.job_storage_mode = "s3"
    /\ bucket' = DictSet(bucket, workunit_object_name(config, current_workunit_index),
                         temp_archive)
    /\ live_tmp' = cleanup(live_tmp)
    /\ temp_archive' = NoFile
    /\ Returned(publish_result_s3(config, current_workunit_index,
                                  current_workunit_subjobs))
    /\ UNCHANGED <<Manifest, leftover_count, sharedfs,
                   io_failed, Artifacts, stdout, log, raised, exit_status>>

\* lines 123-127: upload_file raises.  The handler names ClientError, which
\* the module never imports (lines 31-43), so matching the exception
\* raises NameError: nothing is logged and the run ends
publish_upload_fails ==
    /\ pc = "store"
    /\ config.job_storage_mode = "s3"
    /\ io_failed' = "upload"
    /\ Abort("NameError")
    /\ UNCHANGED <<Manifest, index, status, Batching, counter, call_site,
                   Scratch, Storage, Artifacts, stdout, log>>

\* lines 135-145: the archive is copied to the shared directory
publish_copy ==
    /\ pc = "store"
    /\ config.job_storage_mode = "sharedfs"
    /\ sharedfs' = DictSet(sharedfs, sharedfs_workunit_path(config, current_workunit_index),
                           temp_archive)
    /\ live_tmp' = cleanup(live_tmp)
    /\ temp_archive' = NoFile
    /\ Returned(publish_result_sharedfs(config, current_workunit_index,
                                        current_workunit_subjobs))
    /\ UNCHANGED <<Manifest, leftover_count, bucket,
                   io_failed, Artifacts, stdout, log, raised, exit_status>>

\* line 140: shutil.copyfile raises; nothing catches it
publish_copy_fails ==
    /\ pc = "store"
    /\ config.job_storage_mode = "sharedfs"
    /\ io_failed' = "copy"
    /\ Abort("OSError")
    /\ UNCHANGED <<Manifest, index, status, Batching, counter, call_site,
                   Scratch, Storage, Artifacts, stdout, log>>

\* lines 358-367: the manifest is exhausted
end_of_stream ==
    /\ pc = "loop"
    /\ index = Len(todo_all)
    /\ current_workunit_subjobs' =
           IF has_leftovers(leftover_count)
           THEN DictSet(current_workunit_subjobs, current_subjob_index, leftover_subjob)
           ELSE current_workunit_subjobs
    /\ IF has_items(current_workunit_subjobs')
       THEN /\ pc' = "publish"
            /\ call_site' = "flush"
            /\ UNCHANGED current_workunit_index
       ELSE /\ pc' = "write"
            /\ current_workunit_index' = completed_workunits(current_workunit_index)
            /\ UNCHANGED call_site
    /\ UNCHANGED <<Manifest, index, status, current_subjob_index, leftover_count,
                   leftover_subjob, counter, Scratch, Storage, io_failed,
                   Artifacts, stdout, log, raised, exit_status>>

\* lines 370-374: status is written to ../workflow/status.json
write_status ==
    /\ pc = "write"
    /\ stdout' = Append(stdout, "Writing json")
    /\ status_json' = json_dump_status(status)
    /\ pc' = "copy"
    /\ UNCHANGED <<Manifest, index, status, Batching, counter, call_site,
                   Scratch, Storage, io_failed, status_todolists_json, log,
                   raised, exit_status>>

\* line 376: cp ../workflow/status.json ../workflow/status.todolists.json
copy_status ==
    /\ pc = "copy"
    /\ status_todolists_json' = status_json
    /\ pc' = "print"
    /\ UNCHANGED <<Manifest, index, status, Batching, counter, call_site,
                   Scratch, Storage, io_failed, status_json, stdout, log,
                   raised, exit_status>>

\* line 376: cp ends with a status other than 0 (the target cannot be
\* written, the disk is full); os.system returns that status, nothing
\* reads it and the run goes on
copy_status_fails ==
    /\ pc = "copy"
    /\ pc' = "print"
    /\ UNCHANGED <<Manifest, index, status, Batching, counter, call_site,
                   Scratch, Storage, io_failed, Artifacts, stdout, log,
                   raised, exit_status>>

generated_message(k) == "Generated " \o IntToStr(k) \o " workunits"

\* line 378
print_generated ==
    /\ pc = "print"
    /\ stdout' = Append(stdout, generated_message(current_workunit_index))
    /\ pc' = "done"
    /\ UNCHANGED <<Manifest, index, status, Batching, counter, call_site,
                   Scratch, Storage, io_failed, Artifacts, log, raised,
                   exit_status>>

\* lines 398-399: main returns or is unwound and the interpreter exits;
\* the finalizers of the TemporaryDirectory objects of lines 72-73 remove
\* the directories that are still there
interpreter_exit ==
    /\ pc \in {"done", "aborted"}
    /\ pc' = "exited"
    /\ live_tmp' = {}
    /\ temp_archive' = NoFile
    /\ UNCHANGED <<Manifest, index, status, Batching, counter, call_site,
                   Storage, io_failed, Artifacts, stdout, log, raised,
                   exit_status>>

Next ==
    \/ read_malformed_line
    \/ seal_singleton
    \/ add_leftover
    \/ exit_unknown_storage_mode
    \/ publish_stage
    \/ publish_stage_fails
    \/ publish_upload
    \/ publish_upload_fails
    \/ publish_copy
    \/ publish_copy_fails
    \/ end_of_stream
    \/ write_status
    \/ copy_status
    \/ copy_status_fails
    \/ print_generated
    \/ interpreter_exit

Spec == Init /\ [][Next]_vars

\* =============================================================== claims
\* the collection names the manifest lists
ManifestCollections ==
    {Str(split(todo_all[i])[1]) : i \in 1..Len(todo_all)}

\* the greatest key of a dict with integer keys
LastKey(d) == CHOOSE i \in DOMAIN d : \A j \in DOMAIN d : j <= i

\* the sum of the ligand counts of the collections of a subjob
RECURSIVE SumCounts(_, _)
SumCounts(collections, names) ==
    IF names = {} THEN 0
    ELSE LET n == CHOOSE x \in names : TRUE
         IN  collections[n].ligand_count + SumCounts(collections, names \ {n})

SubjobCount(subjob) == SumCounts(subjob.collections, DOMAIN subjob.collections)

\* C1 (partition completeness): when the run has completed, the collections
\* found in the subjobs of the workunits of status.json are exactly the
\* collections of the manifest, and each of them is in exactly one subjob
\* of exactly one workunit.
C1_PartitionCompleteness ==
    pc = "done" =>
        LET wu == status_json.workunits
            places(n) ==
                UNION {{<<w, s>> : s \in {t \in DOMAIN wu[w].subjobs :
                                            n \in DOMAIN wu[w].subjobs[t].collections}} :
                       w \in DOMAIN wu}
            recorded ==
                UNION {UNION {DOMAIN wu[w].subjobs[s].collections :
                              s \in DOMAIN wu[w].subjobs} : w \in DOMAIN wu}
        IN  /\ recorded = ManifestCollections
            /\ \A n \in ManifestCollections : Cardinality(places(n)) = 1

\* a completed run of three lines or more that recorded two workunits or
\* more and merged two collections into one subjob
C1_Witness ==
    /\ pc = "done"
    /\ Len(todo_all) >= 3
    /\ Cardinality(DOMAIN status_json.workunits) >= 2
    /\ \E w \in DOMAIN status_json.workunits :
         \E s \in DOMAIN status_json.workunits[w].subjobs :
            Cardinality(DOMAIN status_json.workunits[w].subjobs[s].collections) >= 2

\* C2 (workunit cardinality): when the run has completed, every recorded
\* workunit but the last holds exactly max_array_job_size subjobs, and the
\* last holds at least one subjob and at most max_array_job_size.
C2_WorkunitCardinality ==
    pc = "done" =>
        \A i \in DOMAIN workunits :
            LET n == Cardinality(DOMAIN workunits[i].subjobs)
            IN  IF i = LastKey(workunits)
                THEN 1 <= n /\ n <= max_array_job_size
                ELSE n = max_array_job_size

\* a completed run whose last workunit is short of the array size and
\* follows a full one
C2_Witness ==
    /\ pc = "done"
    /\ Cardinality(DOMAIN workunits) >= 2
    /\ Cardinality(DOMAIN workunits[LastKey(workunits)].subjobs) < max_array_job_size

\* C3 (threshold correctness): when the run has completed, the counts of
\* every recorded subjob sum to ligands_todo_per_queue or more (for a
\* subjob of one collection, that collection's count does), except
\* possibly the last subjob of the last workunit, which is then the
\* leftover subjob sealed at the end of the stream.
C3_ThresholdCorrectness ==
    pc = "done" =>
        \A w \in DOMAIN workunits :
            \A s \in DOMAIN workunits[w].subjobs :
                LET subjob == workunits[w].subjobs[s]
                IN  \/ SubjobCount(subjob) >= config.ligands_todo_per_queue
                    \/ /\ w = LastKey(workunits)
                       /\ s = LastKey(workunits[w].subjobs)
                       /\ subjob = leftover_subjob
                       /\ leftover_count = SubjobCount(subjob)
                       /\ leftover_count > 0

\* a completed run that sealed a leftover subjob of two collections during
\* the stream and a leftover subjob below the threshold at its end
C3_Witness ==
    /\ pc = "done"
    /\ DOMAIN workunits # {}
    /\ LET w == LastKey(workunits)
           s == LastKey(workunits[w].subjobs)
       IN  SubjobCount(workunits[w].subjobs[s]) < config.ligands_todo_per_queue
    /\ \E w \in DOMAIN workunits :
         \E s \in DOMAIN workunits[w].subjobs :
            /\ Cardinality(DOMAIN workunits[w].subjobs[s].collections) >= 2
            /\ SubjobCount(workunits[w].subjobs[s]) >= config.ligands_todo_per_queue

\* the indices recorded so far are 1..K for the number K of workunits, and
\* after completion status.json holds those indices and K is printed
SequentialSoFar ==
    /\ DOMAIN workunits = 1..Cardinality(DOMAIN workunits)
    /\ pc = "done" =>
          /\ DOMAIN status_json.workunits =
                 {IntToStr(i) : i \in 1..Cardinality(DOMAIN workunits)}
          /\ stdout[Len(stdout)] =
                 "Generated " \o IntToStr(Cardinality(DOMAIN workunits)) \o " workunits"

\* a step that records a workunit records the one next index and leaves
\* the recorded ones in place
RecordsNextIndex ==
    workunits' # workunits =>
        /\ DOMAIN workunits' = 1..(Cardinality(DOMAIN workunits) + 1)
        /\ \A i \in DOMAIN workunits : workunits'[i] = workunits[i]

\* C4 (sequential indexing): workunits are recorded one at a time under the
\* indices 1, 2, 3, ... in that order, so the indices of a completed run are
\* 1..K without gap or repeat, K being the count that is printed (0 and no
\* index when nothing was published).
C4_SequentialIndexing == [](SequentialSoFar) /\ [][RecordsNextIndex]_vars

\* a completed run that recorded workunits 1 and 2 at least
C4_Witness ==
    /\ pc = "done"
    /\ Cardinality(DOMAIN workunits) >= 2
    /\ stdout[Len(stdout)] # "Generated 0 workunits"

\* the step taken when the manifest is exhausted
FlushStep ==
    (pc = "loop" /\ index = Len(todo_all) /\ pc' # pc) =>
        /\ IF leftover_count > 0
           THEN current_workunit_subjobs' =
                   DictSet(current_workunit_subjobs,
                           Cardinality(DOMAIN current_workunit_subjobs),
                           leftover_subjob)
           ELSE current_workunit_subjobs' = current_workunit_subjobs
        /\ IF DOMAIN current_workunit_subjobs' # {}
           THEN /\ pc' = "publish"
                /\ current_workunit_index' = Cardinality(DOMAIN workunits) + 1
           ELSE /\ pc' = "write"
                /\ current_workunit_index' = Cardinality(DOMAIN workunits)
        /\ workunits' = workunits

\* C5 (end-of-stream flush): when the manifest is exhausted, a leftover
\* subjob with any accumulated count joins the workunit in progress as its
\* next subjob; that workunit is then handed to publish_workunit as the
\* next workunit exactly when it holds a subjob, and otherwise nothing is
\* published and the total is the index of the last workunit published.
C5_EndOfStreamFlush == [][FlushStep]_vars

\* the flush sealed a leftover below the threshold into a workunit that
\* held a subjob already
C5_Witness ==
    /\ pc = "publish"
    /\ call_site = "flush"
    /\ leftover_count > 0
    /\ leftover_count < config.ligands_todo_per_queue
    /\ Cardinality(DOMAIN current_workunit_subjobs) >= 2

\* C6 (unknown storage mode is fatal before packaging): in a storage mode
\* other than s3 and sharedfs, no scratch tree, archive, upload, copy or
\* status entry is ever made, and the run never gets to writing the status
\* artifact: it ends with a non-zero exit status.
C6_UnknownModeFatal ==
    config.job_storage_mode \notin {"s3", "sharedfs"} =>
        /\ live_tmp = {}
        /\ temp_archive = NoFile
        /\ bucket = EmptyDict
        /\ sharedfs = EmptyDict
        /\ DOMAIN workunits = {}
        /\ pc \notin {"write", "copy", "print", "done"}
        /\ pc = "exited" => exit_status # 0

\* a line that does not split into two tokens, or whose name has no "_"
IsMalformed(line) ==
    LET tokens == split(line)
    IN  \/ Len(tokens) # 2
        \/ \A i \in 1..Len(tokens[1]) : tokens[1][i] # "_"

\* no line at or after a malformed line is consumed, and nothing of a
\* completed run exists
NeverPastMalformed ==
    \A i \in 1..Len(todo_all) :
        IsMalformed(todo_all[i]) =>
            /\ index < i
            /\ status_json = NoFile
            /\ status_todolists_json = NoFile
            /\ \A j \in 1..Len(stdout) : \A k \in 0..Len(todo_all) :
                  stdout[j] # "Generated " \o IntToStr(k) \o " workunits"
            /\ pc # "done"
            /\ pc = "exited" => exit_status = 1

\* the step taken at a malformed line ends the run and batches nothing
MalformedStep ==
    (pc = "loop" /\ index < Len(todo_all) /\ IsMalformed(todo_all[index + 1])
       /\ pc' # pc) =>
        /\ pc' = "aborted"
        /\ raised' = "ValueError"
        /\ exit_status' = 1
        /\ UNCHANGED <<index, status, current_workunit_index,
                       current_workunit_subjobs, current_subjob_index,
                       leftover_count, leftover_subjob>>

\* C7 (malformed manifest line is fatal): at a line that does not split
\* into exactly two tokens, or whose name has no "_", the run ends with an
\* exception: the line is not skipped, no later line is batched, status.json
\* is not written and no workunit count is printed.
C7_MalformedLineFatal == [](NeverPastMalformed) /\ [][MalformedStep]_vars

\* the run ended at a malformed second or later line, after a workunit had
\* been published, with a line still to come
C7_Witness ==
    /\ pc = "aborted"
    /\ raised = "ValueError"
    /\ index >= 1
    /\ index + 1 < Len(todo_all)
    /\ IsMalformed(todo_all[index + 1])
    /\ Cardinality(DOMAIN workunits) >= 1

\* C8 (storage failure semantics): a failed upload in s3 mode is logged and
\* raises nothing in the caller, and a failed copy in sharedfs mode raises in
\* the caller and ends the run.
C8_StorageFailureSemantics ==
    /\ io_failed = "upload" => (raised = "none" /\ pc # "aborted" /\ log # <<>>)
    /\ io_failed = "copy" => (raised # "none" /\ exit_status = 1)

\* C9 (scratch release on every exit path): outside a publish_workunit call
\* neither temporary directory exists, whichever way the call was left.
C9_ScratchReleased ==
    pc # "store" => (live_tmp = {} /\ temp_archive = NoFile)

\* where the archives of the storage mode are kept, and where a recorded
\* workunit says its archive is
ArchiveStore ==
    IF config.job_storage_mode = "s3" THEN bucket ELSE sharedfs

RetrievalLocation(w) ==
    IF config.job_storage_mode = "s3" THEN w.s3_download_path ELSE w.download_path

\* C10 (descriptor/status round trip): when the run has completed, for each
\* workunit index i of status.json the archive <i>.tar.gz is stored at the
\* recorded retrieval location and the subjobs of its config.json equal the
\* subjobs recorded under i; there are as many archives, and as many
\* distinct retrieval locations, as workunits.
C10_DescriptorRoundTrip ==
    pc = "done" =>
        LET wu == status_json.workunits IN
        /\ \A k \in DOMAIN wu :
              /\ RetrievalLocation(wu[k]) \in DOMAIN ArchiveStore
              /\ ArchiveStore[RetrievalLocation(wu[k])].name = k \o ".tar.gz"
              /\ ArchiveStore[RetrievalLocation(wu[k])].vf_input.config_json.subjobs
                    = wu[k].subjobs
        /\ Cardinality(DOMAIN ArchiveStore) = Cardinality(DOMAIN wu)
        /\ Cardinality({RetrievalLocation(wu[k]) : k \in DOMAIN wu}) = Cardinality(DOMAIN wu)

\* a completed run in s3 mode with two workunits or more, one of them with
\* two subjobs
C10_Witness ==
    /\ pc = "done"
    /\ config.job_storage_mode = "s3"
    /\ Cardinality(DOMAIN status_json.workunits) >= 2
    /\ \E k \in DOMAIN status_json.workunits :
          Cardinality(DOMAIN status_json.workunits[k].subjobs) >= 2

\* every subjob the run holds: the recorded ones, those of the workunit in
\* progress and the leftover subjob
AllSubjobs ==
    UNION {{workunits[w].subjobs[k] : k \in DOMAIN workunits[w].subjobs} :
           w \in DOMAIN workunits}
      \cup {current_workunit_subjobs[k] : k \in DOMAIN current_workunit_subjobs}
      \cup {leftover_subjob}

\* every collection record the run holds
AllEntries ==
    UNION {{sj.collections[n] : n \in DOMAIN sj.collections} : sj \in AllSubjobs}

\* the number, as the manifest spells it, of the collection of a record
NumberChars(entry) ==
    LET i == CHOOSE j \in 1..Len(todo_all) :
                 Str(split(todo_all[j])[1]) = entry.collection_full_name
    IN  split_sep_1(split(todo_all[i])[1])[2]

\* the configuration with one of its addressing modes set
WithJobMode(mode) == [config EXCEPT !.object_store_job_addressing_mode = mode]
WithCollectionMode(mode) ==
    [config EXCEPT !.object_store_data_collection_addressing_mode = mode]

\* C11 (addressing determinism and independence): in every state of a run,
\* whatever was batched or published before, the path stored with a
\* collection is the path its name, number and tranche have under the
\* configuration whichever the job addressing mode is, and the key stored
\* with a workunit is the key its index has under the configuration
\* whichever the collection addressing mode is.
C11_AddressingIndependence ==
    /\ config.job_storage_mode = "s3" =>
          /\ \A e \in AllEntries : \A m \in AddressingModes :
                e.s3_download_path =
                    gen_s3_download_path(WithJobMode(m), e.collection_tranche,
                                         e.collection_name, NumberChars(e))
          /\ \A w \in DOMAIN workunits : \A m \in AddressingModes :
                workunits[w].s3_download_path =
                    workunit_object_name(WithCollectionMode(m), w)
    /\ config.job_storage_mode = "sharedfs" =>
          \A e \in AllEntries : \A m \in AddressingModes :
             e.sharedfs_path =
                 gen_sharedfs_path(WithJobMode(m), e.collection_tranche,
                                   e.collection_name, NumberChars(e))

\* two workunits are recorded in s3 mode, the collections addressed by
\* hash and the job archives not, and a further collection is held
C11_Witness ==
    /\ config.job_storage_mode = "s3"
    /\ config.object_store_data_collection_addressing_mode = "hash"
    /\ config.object_store_job_addressing_mode = "metatranche"
    /\ Cardinality(DOMAIN workunits) >= 2
    /\ Cardinality(AllEntries) >= 3

\* between two lines the workunit in progress is short of the array size
\* and its next subjob index is its number of subjobs
ShortBetweenLines ==
    pc = "loop" =>
        /\ Cardinality(DOMAIN current_workunit_subjobs) < max_array_job_size
        /\ current_subjob_index = Cardinality(DOMAIN current_workunit_subjobs)

\* a line that fills the workunit is followed by its publication, not by
\* the next line, and the publication leaves an empty workunit behind
PublishesWhenFull ==
    /\ (pc = "loop" /\ index < Len(todo_all) /\ pc' # "aborted"
          /\ Cardinality(DOMAIN current_workunit_subjobs') = max_array_job_size)
         => (pc' = "publish" /\ index' = index)
    /\ (pc = "store" /\ call_site = "loop" /\ pc' = "loop")
         => /\ current_workunit_index \in DOMAIN workunits'
            /\ current_workunit_subjobs' = EmptyDict
            /\ current_subjob_index' = 0
            /\ index' = index + 1
    /\ ShortBetweenLines'

\* C12 (streaming publish): when a line leaves the workunit in progress
\* with max_array_job_size subjobs, the workunit is published and an empty
\* one with subjob index 0 begins before the next line is read; so at the
\* start of every line the workunit in progress holds fewer subjobs than
\* max_array_job_size.
C12_StreamingPublish == [][PublishesWhenFull]_vars

\* a line is about to be read after a workunit of two subjobs was
\* published during the stream
C12_Witness ==
    /\ pc = "loop"
    /\ index < Len(todo_all)
    /\ current_workunit_subjobs = EmptyDict
    /\ \E w \in DOMAIN workunits : Cardinality(DOMAIN workunits[w].subjobs) >= 2

\* the names of the collections of a subjob
CollectionsOf(subjob) == DOMAIN subjob.collections

\* the name and the count of line i of the manifest
LineName(i) == Parsed(todo_all[i]).collection_full_name
LineCount(i) == Parsed(todo_all[i]).collection_count

\* the sum of the counts of lines i and later
RECURSIVE CountFrom(_)
CountFrom(i) ==
    IF i > Len(todo_all) THEN 0 ELSE LineCount(i) + CountFrom(i + 1)

\* no step of a publication, from the staging to the recording of the
\* result, touches the leftover pile
PublishKeepsLeftover ==
    (pc \in {"publish", "store"} \/ workunits' # workunits)
        => (leftover_subjob' = leftover_subjob /\ leftover_count' = leftover_count)

\* with array size 1, a first collection that meets the threshold and
\* later collections that together stay below it, the first collection
\* is workunit 1 and the later ones, sealed at the end, are workunit 2
LeftoverBecomesWorkunitTwo ==
    IF /\ pc = "done"
       /\ max_array_job_size = 1
       /\ Len(todo_all) >= 2
    THEN (LineCount(1) >= ligands_todo_per_queue
              /\ CountFrom(2) < ligands_todo_per_queue)
            => /\ DOMAIN workunits = {1, 2}
               /\ DOMAIN workunits[1].subjobs = {0}
               /\ CollectionsOf(workunits[1].subjobs[0]) = {LineName(1)}
               /\ DOMAIN workunits[2].subjobs = {0}
               /\ CollectionsOf(workunits[2].subjobs[0]) =
                      {LineName(i) : i \in 2..Len(todo_all)}
    ELSE TRUE

\* C13 (publishing leaves the leftover pile alone): publishing a workunit
\* changes neither the collections of leftover_subjob nor leftover_count,
\* so collections below the threshold read before a workunit was published
\* are sealed into a later workunit; with array size 1 a collection at the
\* threshold followed by collections below it gives workunit 1 and the
\* leftover pile as workunit 2.
C13_PublishKeepsLeftover ==
    /\ []LeftoverBecomesWorkunitTwo
    /\ [][PublishKeepsLeftover]_vars

\* a completed run whose second workunit holds a collection read before
\* the collection of its first workunit
C13_Witness ==
    /\ pc = "done"
    /\ Len(todo_all) >= 2
    /\ {1, 2} \subseteq DOMAIN workunits
    /\ LineName(1) \in CollectionsOf(workunits[2].subjobs[0])
    /\ LineName(2) \in CollectionsOf(workunits[1].subjobs[0])

\* a line whose count is the threshold is about to be read
AtThreshold ==
    /\ pc = "loop"
    /\ index < Len(todo_all)
    /\ ParseOk(NextLine)
    /\ LineCount(index + 1) = ligands_todo_per_queue

\* the step that reads it seals a subjob of that collection alone under
\* the next subjob index and changes nothing of the leftover pile
SealsAlone ==
    AtThreshold =>
        /\ DOMAIN current_workunit_subjobs' =
               DOMAIN current_workunit_subjobs \cup {current_subjob_index}
        /\ current_subjob_index \notin DOMAIN current_workunit_subjobs
        /\ CollectionsOf(current_workunit_subjobs'[current_subjob_index]) =
               {LineName(index + 1)}
        /\ current_workunit_subjobs'[current_subjob_index]
               .collections[LineName(index + 1)].ligand_count = ligands_todo_per_queue
        /\ leftover_subjob' = leftover_subjob
        /\ leftover_count' = leftover_count

\* C14 (tie-break at the threshold): a collection whose count equals
\* ligands_todo_per_queue is sealed as a subjob of its own holding that
\* collection only; it is not added to the leftover subjob, and the
\* leftover subjob and leftover_count stay as they were.
C14_ThresholdTieBreak == [][SealsAlone]_vars

\* a collection at a threshold of two or more was sealed alone while the
\* leftover pile held another collection
C14_Witness ==
    /\ ligands_todo_per_queue >= 2
    /\ leftover_count > 0
    /\ \E k \in DOMAIN current_workunit_subjobs :
          LET sj == current_workunit_subjobs[k] IN
            /\ Cardinality(CollectionsOf(sj)) = 1
            /\ \A n \in CollectionsOf(sj) :
                  /\ sj.collections[n].ligand_count = ligands_todo_per_queue
                  /\ n \notin CollectionsOf(leftover_subjob)

\* the dicts of subjobs the run holds: those of the recorded workunits
\* and that of the workunit in progress
AllWorkunitSubjobs ==
    {workunits[w].subjobs : w \in DOMAIN workunits} \cup {current_workunit_subjobs}

\* the leftover subjob as the end of the stream sealed it
IsFlushedLeftover(subjob) ==
    CollectionsOf(subjob) # {} /\ subjob = leftover_subjob

\* the lines read so far that unpack
LinesRead ==
    {i \in 1..Len(todo_all) : i <= index + 1 /\ ParseOk(todo_all[i])}

\* the keys of the subjobs of a workunit are 0..k-1 and follow the order
\* of sealing: a subjob is sealed at the line of its last collection, or
\* after every line when the end of the stream sealed it
KeyedInSealingOrder ==
    LET read == LinesRead
        name == [i \in read |-> Str(split(todo_all[i])[1])]
        SealedAt(subjob) ==
            IF IsFlushedLeftover(subjob) THEN Len(todo_all) + 1
            ELSE CHOOSE i \in read :
                    /\ name[i] \in CollectionsOf(subjob)
                    /\ \A j \in read : name[j] \in CollectionsOf(subjob) => j <= i
    IN  \A d \in AllWorkunitSubjobs :
            /\ DOMAIN d = 0..(Cardinality(DOMAIN d) - 1)
            /\ \A a \in DOMAIN d : (a + 1) \in DOMAIN d =>
                   SealedAt(d[a]) < SealedAt(d[a + 1])

\* a step that changes the workunit in progress either starts an empty
\* one or adds one subjob under the next key and keeps the sealed ones
SealsUnderNextKey ==
    current_workunit_subjobs' # current_workunit_subjobs =>
        \/ current_workunit_subjobs' = EmptyDict
        \/ /\ DOMAIN current_workunit_subjobs' =
                  0..Cardinality(DOMAIN current_workunit_subjobs)
           /\ \A k \in DOMAIN current_workunit_subjobs :
                  current_workunit_subjobs'[k] = current_workunit_subjobs[k]

\* C15 (subjob indexing within a workunit): the subjobs of every published
\* workunit with k subjobs are keyed by exactly 0..k-1, without gap or
\* repetition, no sealed subjob is overwritten, and the keys follow the
\* order in which the subjobs were sealed, the leftover subjob sealed at
\* the end of the stream included.
C15_SubjobIndexing ==
    /\ []KeyedInSealingOrder
    /\ [][SealsUnderNextKey]_vars

\* a recorded workunit of a completed run holds two subjobs, the last of
\* them the leftover subjob sealed at the end of the stream
C15_Witness ==
    /\ pc = "done"
    /\ \E w \in DOMAIN workunits :
          LET d == workunits[w].subjobs IN
            /\ Cardinality(DOMAIN d) >= 2
            /\ IsFlushedLeftover(d[LastKey(d)])

\* how many times "Writing json", printed right before status.json is
\* opened for writing (line 370), is in the output
JsonWrites == Cardinality({i \in 1..Len(stdout) : stdout[i] = "Writing json"})

\* the run has printed the number of workunits it generated
ReportsCompletion ==
    stdout[Len(stdout)] = generated_message(current_workunit_index)

\* status.json was written once and holds every recorded workunit
StatusWrittenOnce ==
    ReportsCompletion =>
        /\ JsonWrites = 1
        /\ status_json = json_dump_status(status)

\* C16 (status artifact before completion): when the run prints the number
\* of generated workunits, status.json has been written exactly once, after
\* the last workunit was published and with every published workunit in
\* it, and status.todolists.json has been produced as a copy of what was
\* written.
C16_StatusBeforeCompletion ==
    /\ StatusWrittenOnce
    /\ ReportsCompletion => status_todolists_json = status_json

\* between two lines leftover_count is the sum of the counts of the
\* collections of leftover_subjob, is below the threshold, and is zero
\* exactly when leftover_subjob holds no collection
AccumulatorBetweenLines ==
    pc = "loop" =>
        /\ leftover_count = SubjobCount(leftover_subjob)
        /\ leftover_count < ligands_todo_per_queue
        /\ leftover_count = 0 <=> CollectionsOf(leftover_subjob) = {}

\* the step seals the leftover subjob: a subjob is added to the workunit
\* in progress and it is not the subjob of a collection at the threshold
SealsLeftover ==
    /\ pc = "loop"
    /\ DOMAIN current_workunit_subjobs' # DOMAIN current_workunit_subjobs
    /\ (index = Len(todo_all) \/ LineCount(index + 1) < ligands_todo_per_queue)

LeftoverReset ==
    leftover_count' = 0 /\ leftover_subjob' = generate_subjob_init

\* C17 as stated (leftover accumulator invariant): between two lines
\* leftover_count is the sum of the counts held by leftover_subjob, is
\* below ligands_todo_per_queue and is zero exactly when leftover_subjob is
\* empty; every step that seals a leftover subjob resets the count to 0
\* and the subjob to empty.
C17_EverySealResets ==
    /\ []AccumulatorBetweenLines
    /\ [][SealsLeftover => LeftoverReset]_vars

\* C17 as the code has it (leftover accumulator invariant): between two
\* lines leftover_count is the sum of the counts held by leftover_subjob,
\* is below ligands_todo_per_queue and is zero exactly when leftover_subjob
\* is empty; a step that seals a leftover subjob while lines remain resets
\* the count to 0 and the subjob to empty, and the seal at the end of the
\* stream leaves both as they are.
C17_LeftoverAccumulator ==
    /\ []AccumulatorBetweenLines
    /\ [][SealsLeftover =>
            IF index < Len(todo_all) THEN LeftoverReset
            ELSE leftover_count' = leftover_count
                    /\ leftover_subjob' = leftover_subjob]_vars

\* a completed run sealed one leftover subjob during the stream and
\* another, still held by leftover_subjob, at its end
C17_Witness ==
    /\ pc = "done"
    /\ leftover_count > 0
    /\ \E d \in AllWorkunitSubjobs : \E k \in DOMAIN d : IsFlushedLeftover(d[k])
    /\ \E d \in AllWorkunitSubjobs : \E k \in DOMAIN d :
          Cardinality(CollectionsOf(d[k])) >= 2 /\ ~IsFlushedLeftover(d[k])

\* every recorded workunit is recorded after the step with the subjobs,
\* the collections and the retrieval location it had before
RecordedStay ==
    \A i \in DOMAIN workunits :
        /\ i \in DOMAIN workunits'
        /\ workunits'[i].subjobs = workunits[i].subjobs
        /\ RetrievalLocation(workunits'[i]) = RetrievalLocation(workunits[i])

\* publish_workunit leaves the subjobs it was given as they are and
\* returns them as they are
PublisherKeepsSubjobs ==
    /\ pc \in {"publish", "store"} =>
           current_workunit_subjobs' \in {current_workunit_subjobs, EmptyDict}
    /\ \A i \in DOMAIN workunits' \ DOMAIN workunits :
           workunits'[i].subjobs = current_workunit_subjobs

\* C18 (recorded workunits are immutable): once workunits[i] is recorded in
\* status, no later step changes its subjobs, their collections or its
\* retrieval location, and publish_workunit neither adds, removes nor
\* moves a collection or a subjob of the workunit it publishes.
C18_RecordedImmutable == [][RecordedStay /\ PublisherKeepsSubjobs]_vars

\* after workunit 1 was recorded a further line was read, a leftover
\* subjob was sealed at the end of the stream and workunit 2 was
\* published with it
C18_Witness ==
    /\ pc \in {"write", "copy", "print", "done"}
    /\ DOMAIN workunits = {1, 2}
    /\ workunits[1].subjobs # EmptyDict
    /\ \E k \in DOMAIN workunits[2].subjobs :
          IsFlushedLeftover(workunits[2].subjobs[k])

====
